---- MODULE Spec2Model ----
(***************************************************************************)
(* Model of src/application/app.py: the schema-comment parser, the rubrique *)
(* extraction and column filter of get_table_metadata, the transactional   *)
(* writer save_data and the control flow of main.                          *)
(*                                                                         *)
(* A Python str is a sequence of tokens.  A token is one character, except *)
(* that the word "Rubrique" is one token, so that the literal ", Rubrique" *)
(* is <<",", " ", "Rubrique">> and the literal "Rubrique " is              *)
(* <<"Rubrique", " ">>.  A Python dict is the sequence of its <<key,       *)
(* value>> pairs in insertion order.                                       *)
(***************************************************************************)
EXTENDS Integers, Sequences, FiniteSets, TLC

\* ------------------------------------------------------------------ bounds
MaxRaw == 5
MaxItems == 3

\* ------------------------------------------------------- Python primitives
\* None, kept apart from every str (no token is "<None>").
Null == <<"<None>">>

\* `not x` for a str or None
Falsy(x) == x = Null \/ x = <<>>

\* str.isspace() of one token
Whitespace == {" ", "\t"}

Contains(s, c) == \E i \in 1..Len(s) : s[i] = c

\* s.find(sep): index of the first occurrence of sep in s, 0 when absent
Find(s, sep) ==
    LET occ == {i \in 1..(Len(s) - Len(sep) + 1) : SubSeq(s, i, i + Len(sep) - 1) = sep}
    IN  IF occ = {} THEN 0 ELSE CHOOSE i \in occ : \A j \in occ : i <= j

\* sep in s
HasSub(s, sep) == Find(s, sep) # 0

\* s.split(sep, maxsplit); maxsplit = -1 is no limit
RECURSIVE Split(_, _, _)
Split(s, sep, maxsplit) ==
    LET j == Find(s, sep)
    IN  IF maxsplit = 0 \/ j = 0
        THEN <<s>>
        ELSE <<SubSeq(s, 1, j - 1)>>
             \o Split(SubSeq(s, j + Len(sep), Len(s)), sep, maxsplit - 1)

RECURSIVE LStrip(_)
LStrip(s) == IF s # <<>> /\ Head(s) \in Whitespace THEN LStrip(Tail(s)) ELSE s

RECURSIVE RStrip(_)
RStrip(s) ==
    IF s # <<>> /\ s[Len(s)] \in Whitespace THEN RStrip(SubSeq(s, 1, Len(s) - 1)) ELSE s

\* s.strip()
Strip(s) == RStrip(LStrip(s))

\* re.findall(r'\(([^()]+)\)', s) scanning from position i: at a "(" the
\* greedy [^()]+ runs to the next parenthesis, which must be a ")" at least
\* one token away; after a match the scan resumes behind it.
RECURSIVE FindAllFrom(_, _)
FindAllFrom(s, i) ==
    IF i > Len(s) THEN <<>>
    ELSE IF s[i] # "(" THEN FindAllFrom(s, i + 1)
    ELSE LET ps == {k \in (i + 1)..Len(s) : s[k] \in {"(", ")"}}
             j  == IF ps = {} THEN 0 ELSE CHOOSE k \in ps : \A l \in ps : k <= l
         IN  IF j # 0 /\ s[j] = ")" /\ j > i + 1
             THEN <<SubSeq(s, i + 1, j - 1)>> \o FindAllFrom(s, j + 1)
             ELSE FindAllFrom(s, i + 1)

FindAll(s) == FindAllFrom(s, 1)

\* d[k] = v on a dict: an existing key keeps its place and takes the new value
DictSet(d, k, v) ==
    IF \E i \in 1..Len(d) : d[i][1] = k
    THEN [i \in 1..Len(d) |-> IF d[i][1] = k THEN <<k, v>> ELSE d[i]]
    ELSE Append(d, <<k, v>>)

\* list(d.values())
DictValues(d) == [i \in 1..Len(d) |-> d[i][2]]

\* ---------------------------------------------------------------- variables
VARIABLES
    \* parser: a column comment, its choices, its rubrique, one resolved label
    comment, choices, rubrique, sel, code, ppc,
    \* save_data: position, arguments, locals
    pc, ent_data, list_dem, list_sol, dict_dem, dict_sol, conn, new_id, idx,
    \* the store: the connection's transaction, its uncommitted rows, the
    \* committed tables (what readers see), the key generator
    txn, pend, tab, seq,
    \* what the user and the caller get: st.success / st.error messages, an
    \* exception leaving save_data, the value returned
    messages, raised, ret,
    \* history: the store when save_data was called, the step that raised, the
    \* statements the store executed
    before, fault, log,
    \* the catalog's rows per table, the st.cache_data entries of
    \* get_table_metadata, what its last call returned per table, how the query
    \* behind that value ended
    catalog, cache, struct, qstat,
    \* main: position in the script run, number of runs, whether this run has
    \* rendered the form, whether the run before had
    mpc, runs, rendered, shown

parseVars == <<comment, choices, rubrique, sel, code, ppc>>

saveVars == <<pc, ent_data, list_dem, list_sol, dict_dem, dict_sol, conn, new_id, idx,
              txn, pend, tab, seq, messages, raised, ret, before, fault, log>>

metaVars == <<catalog, cache, struct, qstat, mpc, runs, rendered, shown>>

vars == <<parseVars, saveVars, metaVars>>

\* ---------------------------------------------------- parse_comment_to_dict
\* mutant: the first parenthesized group is taken, whatever it holds
FirstCandidate_AnyGroup(matches) == IF matches = <<>> THEN <<>> ELSE Head(matches)

\* the first match that holds a ';' or a ':' (lines 42-46); <<>> models None:
\* no match is empty, the regex demands one token at least
RECURSIVE FirstCandidate(_)
FirstCandidate(matches) ==
    IF matches = <<>> THEN <<>>
    ELSE IF Contains(Head(matches), ";") \/ Contains(Head(matches), ":")
         THEN Head(matches)
         ELSE FirstCandidate(Tail(matches))

\* one turn of the loop over the items (lines 53-60)
AddItem(mapping, raw) ==
    LET item == Strip(raw)
    IN  IF item = <<>> THEN mapping
        ELSE IF Contains(item, ":")
             THEN LET parts == Split(item, <<":">>, 1)
                  IN  DictSet(mapping, Strip(parts[1]), Strip(parts[2]))
             ELSE DictSet(mapping, item, item)

RECURSIVE AddItems(_, _)
AddItems(mapping, items) ==
    IF items = <<>> THEN mapping
    ELSE AddItems(AddItem(mapping, Head(items)), Tail(items))

parse_comment_to_dict(c) ==
    IF Falsy(c) THEN <<>>
    ELSE LET text_to_parse == Split(c, <<",", " ", "Rubrique">>, -1)[1]
             candidate     == FirstCandidate(FindAll(text_to_parse))
         IN  IF Falsy(candidate) THEN <<>>
             ELSE AddItems(<<>>, Split(candidate, <<";">>, -1))

\* --------------------------------------------- rubrique (get_table_metadata)
General == <<"Général">>

\* mutant: the text behind the first "Rubrique " is taken, up to the next one
ExtractRubrique_First(c) ==
    LET cm    == IF Falsy(c) THEN <<>> ELSE c
        parts == Split(cm, <<"Rubrique", " ">>, -1)
    IN  IF HasSub(cm, <<"Rubrique", " ">>) THEN Strip(parts[2]) ELSE <<"Général">>

\* lines 80-82: comment = row['comment'] or ""; the text behind the last
\* "Rubrique ", stripped, or the default
ExtractRubrique(c) ==
    LET cm    == IF Falsy(c) THEN <<>> ELSE c
        parts == Split(cm, <<"Rubrique", " ">>, -1)
    IN  IF HasSub(cm, <<"Rubrique", " ">>) THEN Strip(parts[Len(parts)]) ELSE General

\* ------------------------------------------------ reverse lookup (save_data)
\* mutant: the last matching code is taken
RECURSIVE ReverseLookup_Last(_, _)
ReverseLookup_Last(d, val) ==
    IF d = <<>> THEN val
    ELSE IF d[Len(d)][2] = val THEN d[Len(d)][1]
         ELSE ReverseLookup_Last(SubSeq(d, 1, Len(d) - 1), val)

\* mutant: the label is stored untranslated
ReverseLookup_Verbatim(d, val) == val

\* next((k for k, v in d.items() if v == val), val), lines 116 and 121
RECURSIVE ReverseLookup(_, _)
ReverseLookup(d, val) ==
    IF d = <<>> THEN val
    ELSE IF Head(d)[2] = val THEN Head(d)[1] ELSE ReverseLookup(Tail(d), val)

\* ------------------------------------------------------------ comment inputs
SeqsUpTo(S, n) == UNION {[1..k -> S] : k \in 0..n}

RawParenComments == SeqsUpTo({"(", ")", ";", ":", " ", "a"}, MaxRaw)

RawRubriqueComments == SeqsUpTo({"Rubrique", " ", ",", "a"}, MaxRaw)

RECURSIVE Join(_, _)
Join(parts, sep) ==
    IF parts = <<>> THEN <<>>
    ELSE IF Len(parts) = 1 THEN parts[1]
    ELSE parts[1] \o sep \o Join(Tail(parts), sep)

ItemTexts ==
    { <<"1", ":", "A">>, <<"2", ":", "A">>, <<"1", ":", "B">>, <<"A">>, <<" ">>,
      <<" ", "2", " ", ":", " ", "B", ":", "C", " ">> }

Prefixes ==
    { <<>>, <<"a", " ">>, <<"a", "(", "s", ")", " ">>, <<"(", "a", " ">>,
      <<"(", "3", ":", "C", ")">>, <<"a", ",", " ", "Rubrique", " ">> }

Suffixes ==
    { <<>>, <<")">>, <<",", " ", "Rubrique", " ", "U">>,
      <<" ", "Rubrique", " ", " ", "U", " ">>,
      <<",", " ", "Rubrique", " ", "U", " ", "Rubrique", " ", "V">>,
      <<",", " ", "Rubrique", " ", "(", "9", ":", "Z", ")">> }

BuiltComments ==
    { p \o <<"(">> \o Join(its, <<";">>) \o <<")">> \o s :
        p \in Prefixes, its \in SeqsUpTo(ItemTexts, MaxItems) \ {<<>>}, s \in Suffixes }

Comments == {Null} \cup RawParenComments \cup RawRubriqueComments \cup BuiltComments

\* a label no comment yields
OtherLabel == <<"?">>

\* ------------------------------------------------------------ parser actions
InitParse ==
    /\ comment \in Comments
    /\ choices = <<>> /\ rubrique = <<>> /\ sel = <<>> /\ code = <<>>
    /\ ppc = "start"
    /\ pc = "off" /\ ent_data = <<>> /\ list_dem = <<>> /\ list_sol = <<>>
    /\ dict_dem = <<>> /\ dict_sol = <<>> /\ conn = "None" /\ new_id = 0 /\ idx = 0
    /\ txn = "none" /\ pend = [ent |-> <<>>, dem |-> <<>>, sol |-> <<>>]
    /\ tab = [ent |-> <<>>, dem |-> <<>>, sol |-> <<>>] /\ seq = 1
    /\ messages = <<>> /\ raised = FALSE /\ ret = "None"
    /\ before = [ent |-> <<>>, dem |-> <<>>, sol |-> <<>>] /\ fault = "none" /\ log = <<>>
    /\ catalog = [t \in {"entretien", "demande", "solution"} |-> <<>>]
    /\ cache = [t \in {"entretien", "demande", "solution"} |-> <<>>]
    /\ struct = [t \in {"entretien", "demande", "solution"} |-> <<>>]
    /\ qstat = [t \in {"entretien", "demande", "solution"} |-> "none"]
    /\ mpc = "off" /\ runs = 0 /\ rendered = FALSE /\ shown = FALSE

ParseCommentToDict ==
    /\ ppc = "start"
    /\ choices' = parse_comment_to_dict(comment)
    /\ ppc' = "parsed"
    /\ UNCHANGED <<comment, rubrique, sel, code>>
    /\ UNCHANGED <<saveVars, metaVars>>

ReadRubrique ==
    /\ ppc = "parsed"
    /\ rubrique' = ExtractRubrique(comment)
    /\ ppc' = "grouped"
    /\ UNCHANGED <<comment, choices, sel, code>>
    /\ UNCHANGED <<saveVars, metaVars>>

Resolve ==
    /\ ppc = "grouped"
    /\ \E val \in {choices[i][2] : i \in 1..Len(choices)} \cup {OtherLabel} :
          /\ sel' = val
          /\ code' = ReverseLookup(choices, val)
    /\ ppc' = "resolved"
    /\ UNCHANGED <<comment, choices, rubrique>>
    /\ UNCHANGED <<saveVars, metaVars>>

\* ------------------------------------------------------------------ the store
NoRows == [ent |-> <<>>, dem |-> <<>>, sol |-> <<>>]

\* a dossier saved earlier, under key 1
EarlierRows ==
    [ent |-> << [num |-> 1, data |-> << <<"mode", "1">> >>] >>,
     dem |-> << [num |-> 1, pos |-> 1, nature |-> <<"1">>] >>,
     sol |-> <<>>]

AddRows(t, p) == [ent |-> t.ent \o p.ent, dem |-> t.dem \o p.dem, sol |-> t.sol \o p.sol]

\* -------------------------------------------------------- save_data, inputs
MaxSel == 2

SaveLabels == {<<"A">>, <<"B">>}

Dicts ==
    { <<>>,
      << <<<<"1">>, <<"A">>>> >>,
      << <<<<"1">>, <<"A">>>>, <<<<"2">>, <<"B">>>> >>,
      << <<<<"2">>, <<"B">>>>, <<<<"1">>, <<"A">>>> >>,
      << <<<<"1">>, <<"A">>>>, <<<<"2">>, <<"A">>>> >>,
      << <<<<"2">>, <<"A">>>>, <<<<"1">>, <<"A">>>> >> }

EntDatas == { <<>>, << <<"mode", "2">> >> }

None == "None"

InitSave ==
    /\ pc = "idle" /\ ent_data = <<>> /\ list_dem = <<>> /\ list_sol = <<>>
    /\ dict_dem = <<>> /\ dict_sol = <<>> /\ conn = None /\ new_id = 0 /\ idx = 0
    /\ txn = "none" /\ pend = NoRows
    /\ \/ tab = NoRows /\ seq = 1
       \/ tab = EarlierRows /\ seq = 2
    /\ messages = <<>> /\ raised = FALSE /\ ret = None
    /\ before = NoRows /\ fault = "none" /\ log = <<>>
    /\ comment = <<"<None>">> /\ choices = <<>> /\ rubrique = <<>>
    /\ sel = <<>> /\ code = <<>> /\ ppc = "off"
    /\ catalog = [t \in {"entretien", "demande", "solution"} |-> <<>>]
    /\ cache = [t \in {"entretien", "demande", "solution"} |-> <<>>]
    /\ struct = [t \in {"entretien", "demande", "solution"} |-> <<>>]
    /\ qstat = [t \in {"entretien", "demande", "solution"} |-> "none"]
    /\ mpc = "off" /\ runs = 0 /\ rendered = FALSE /\ shown = FALSE

\* ------------------------------------------------------- save_data, the steps
\* line 100-101: entry
Enter(ed, ld, ls, dd, ds) ==
    /\ ent_data' = ed /\ list_dem' = ld /\ list_sol' = ls
    /\ dict_dem' = dd /\ dict_sol' = ds
    /\ conn' = None /\ new_id' = 0 /\ idx' = 0
    /\ messages' = <<>> /\ raised' = FALSE /\ ret' = None
    /\ before' = tab /\ fault' = "none" /\ log' = <<>>
    /\ pc' = "connect"
    /\ UNCHANGED <<txn, pend, tab, seq>>

CallSaveData ==
    /\ pc = "idle"
    /\ \E ed \in EntDatas, ld \in SeqsUpTo(SaveLabels, MaxSel),
          ls \in SeqsUpTo(SaveLabels, MaxSel), dd \in Dicts, ds \in Dicts :
          Enter(ed, ld, ls, dd, ds)
    /\ UNCHANGED <<parseVars, metaVars>>

\* a step of the try block raises: control goes to the except clause
Raise(step) == pc' = "except" /\ fault' = step

\* line 103: psycopg2.connect
Connect ==
    /\ pc = "connect"
    /\ \/ conn' = "open" /\ pc' = "encoding" /\ UNCHANGED fault
       \/ Raise("connect") /\ UNCHANGED conn
    /\ UNCHANGED <<ent_data, list_dem, list_sol, dict_dem, dict_sol, new_id, idx, txn,
                   pend, tab, seq, messages, raised, ret, before, log>>
    /\ UNCHANGED <<parseVars, metaVars>>

\* lines 104-105: set_client_encoding, cursor
SetUp ==
    /\ pc = "encoding"
    /\ \/ pc' = "insert_ent" /\ UNCHANGED fault
       \/ Raise("setup")
    /\ UNCHANGED <<ent_data, list_dem, list_sol, dict_dem, dict_sol, conn, new_id, idx,
                   txn, pend, tab, seq, messages, raised, ret, before, log>>
    /\ UNCHANGED <<parseVars, metaVars>>

\* where the try block goes on after the parent insert or a loop turn
AfterEntretien ==
    IF list_dem # <<>> THEN "insert_dem" ELSE IF list_sol # <<>> THEN "insert_sol" ELSE "commit"

AfterDemande(k) ==
    IF k < Len(list_dem) THEN "insert_dem" ELSE IF list_sol # <<>> THEN "insert_sol" ELSE "commit"

AfterSolution(k) == IF k < Len(list_sol) THEN "insert_sol" ELSE "commit"

\* mutant: the connection is in autocommit mode for the parent insert
InsertEntretien_Autocommit ==
    /\ pc = "insert_ent"
    /\ \/ /\ ent_data # <<>>
          /\ txn' = "active"
          /\ tab' = [tab EXCEPT !.ent = Append(@, [num |-> seq, data |-> ent_data])]
          /\ new_id' = seq
          /\ seq' = seq + 1
          /\ log' = Append(log, "ent")
          /\ idx' = 0
          /\ pc' = AfterEntretien
          /\ UNCHANGED fault
       \/ /\ txn' = "aborted"
          /\ seq' \in {seq, seq + 1}
          /\ Raise("insert_ent")
          /\ UNCHANGED <<tab, new_id, log, idx>>
    /\ UNCHANGED <<ent_data, list_dem, list_sol, dict_dem, dict_sol, conn, pend,
                   messages, raised, ret, before>>
    /\ UNCHANGED <<parseVars, metaVars>>

\* lines 108-112: INSERT INTO entretien ... RETURNING num.  The first execute
\* opens the transaction; a statement that raises leaves it aborted.  With no
\* column the statement is no SQL and raises.  The key generator may have
\* advanced when the statement raises.
InsertEntretien ==
    /\ pc = "insert_ent"
    /\ \/ /\ ent_data # <<>>
          /\ txn' = "active"
          /\ pend' = [pend EXCEPT !.ent = Append(@, [num |-> seq, data |-> ent_data])]
          /\ new_id' = seq
          /\ seq' = seq + 1
          /\ log' = Append(log, "ent")
          /\ idx' = 0
          /\ pc' = AfterEntretien
          /\ UNCHANGED fault
       \/ /\ txn' = "aborted"
          /\ seq' \in {seq, seq + 1}
          /\ Raise("insert_ent")
          /\ UNCHANGED <<pend, new_id, log, idx>>
    /\ UNCHANGED <<ent_data, list_dem, list_sol, dict_dem, dict_sol, conn, tab,
                   messages, raised, ret, before>>
    /\ UNCHANGED <<parseVars, metaVars>>

\* mutant: pos is enumerate's index, from 0
InsertDemande_ZeroBased ==
    /\ pc = "insert_dem"
    /\ \/ LET val      == list_dem[idx + 1]
              code_dem == ReverseLookup(dict_dem, val)
          IN  /\ pend' = [pend EXCEPT !.dem =
                              Append(@, [num |-> new_id, pos |-> idx, nature |-> code_dem])]
              /\ log' = Append(log, "dem")
              /\ idx' = IF idx + 1 < Len(list_dem) THEN idx + 1 ELSE 0
              /\ pc' = AfterDemande(idx + 1)
              /\ UNCHANGED <<txn, fault>>
       \/ /\ txn' = "aborted"
          /\ Raise("insert_dem")
          /\ UNCHANGED <<pend, log, idx>>
    /\ UNCHANGED <<ent_data, list_dem, list_sol, dict_dem, dict_sol, conn, new_id, tab,
                   seq, messages, raised, ret, before>>
    /\ UNCHANGED <<parseVars, metaVars>>

\* lines 115-117: one turn of the loop over list_dem; idx is enumerate's index i
InsertDemande ==
    /\ pc = "insert_dem"
    /\ \/ LET val      == list_dem[idx + 1]
              code_dem == ReverseLookup(dict_dem, val)
          IN  /\ pend' = [pend EXCEPT !.dem =
                              Append(@, [num |-> new_id, pos |-> idx + 1, nature |-> code_dem])]
              /\ log' = Append(log, "dem")
              /\ idx' = IF idx + 1 < Len(list_dem) THEN idx + 1 ELSE 0
              /\ pc' = AfterDemande(idx + 1)
              /\ UNCHANGED <<txn, fault>>
       \/ /\ txn' = "aborted"
          /\ Raise("insert_dem")
          /\ UNCHANGED <<pend, log, idx>>
    /\ UNCHANGED <<ent_data, list_dem, list_sol, dict_dem, dict_sol, conn, new_id, tab,
                   seq, messages, raised, ret, before>>
    /\ UNCHANGED <<parseVars, metaVars>>

\* lines 120-122: one turn of the loop over list_sol
InsertSolution ==
    /\ pc = "insert_sol"
    /\ \/ LET val      == list_sol[idx + 1]
              code_sol == ReverseLookup(dict_sol, val)
          IN  /\ pend' = [pend EXCEPT !.sol =
                              Append(@, [num |-> new_id, pos |-> idx + 1, nature |-> code_sol])]
              /\ log' = Append(log, "sol")
              /\ idx' = IF idx + 1 < Len(list_sol) THEN idx + 1 ELSE 0
              /\ pc' = AfterSolution(idx + 1)
              /\ UNCHANGED <<txn, fault>>
       \/ /\ txn' = "aborted"
          /\ Raise("insert_sol")
          /\ UNCHANGED <<pend, log, idx>>
    /\ UNCHANGED <<ent_data, list_dem, list_sol, dict_dem, dict_sol, conn, new_id, tab,
                   seq, messages, raised, ret, before>>
    /\ UNCHANGED <<parseVars, metaVars>>

\* line 124: conn.commit().  A commit that succeeds publishes the rows of the
\* transaction at once; a commit that raises publishes none.
Commit ==
    /\ pc = "commit"
    /\ \/ /\ tab' = AddRows(tab, pend)
          /\ pend' = NoRows
          /\ txn' = "committed"
          /\ log' = Append(log, "commit")
          /\ pc' = "success"
          /\ UNCHANGED fault
       \/ /\ txn' = "aborted"
          /\ Raise("commit")
          /\ UNCHANGED <<tab, pend, log>>
    /\ UNCHANGED <<ent_data, list_dem, list_sol, dict_dem, dict_sol, conn, new_id, idx,
                   seq, messages, raised, ret, before>>
    /\ UNCHANGED <<parseVars, metaVars>>

\* line 125: st.success
ReportSuccess ==
    /\ pc = "success"
    /\ messages' = Append(messages, <<"success", new_id>>)
    /\ pc' = "finally"
    /\ UNCHANGED <<ent_data, list_dem, list_sol, dict_dem, dict_sol, conn, new_id, idx,
                   txn, pend, tab, seq, raised, ret, before, fault, log>>
    /\ UNCHANGED <<parseVars, metaVars>>

\* line 127: if conn: conn.rollback().  A rollback that raises leaves the
\* except clause: st.error is skipped and the exception leaves save_data
\* after the finally clause.
Rollback ==
    /\ pc = "except"
    /\ \/ /\ conn = None
          /\ pc' = "error"
          /\ UNCHANGED <<txn, pend, raised, fault, log>>
       \/ /\ conn # None
          /\ txn' = IF txn \in {"active", "aborted"} THEN "rolledback" ELSE txn
          /\ pend' = NoRows
          /\ log' = Append(log, "rollback")
          /\ pc' = "error"
          /\ UNCHANGED <<raised, fault>>
       \/ /\ conn # None
          /\ raised' = TRUE
          /\ fault' = "rollback"
          /\ pc' = "finally"
          /\ UNCHANGED <<txn, pend, log>>
    /\ UNCHANGED <<ent_data, list_dem, list_sol, dict_dem, dict_sol, conn, new_id, idx,
                   tab, seq, messages, ret, before>>
    /\ UNCHANGED <<parseVars, metaVars>>

\* mutant: the except clause swallows the error
ReportError_Swallowed ==
    /\ pc = "error"
    /\ pc' = "finally"
    /\ UNCHANGED <<ent_data, list_dem, list_sol, dict_dem, dict_sol, conn, new_id, idx,
                   txn, pend, tab, seq, messages, raised, ret, before, fault, log>>
    /\ UNCHANGED <<parseVars, metaVars>>

\* line 128: st.error
ReportError ==
    /\ pc = "error"
    /\ messages' = Append(messages, <<"error", fault>>)
    /\ pc' = "finally"
    /\ UNCHANGED <<ent_data, list_dem, list_sol, dict_dem, dict_sol, conn, new_id, idx,
                   txn, pend, tab, seq, raised, ret, before, fault, log>>
    /\ UNCHANGED <<parseVars, metaVars>>

\* mutant: the close stands at the end of the try and except blocks, not in a
\* finally clause: an exception leaving the except clause skips it
Finally_NotOnException ==
    /\ pc = "finally"
    /\ IF conn = None \/ raised
       THEN UNCHANGED <<conn, txn, pend>>
       ELSE /\ conn' = "closed"
            /\ txn' = IF txn \in {"active", "aborted"} THEN "rolledback" ELSE txn
            /\ pend' = NoRows
    /\ ret' = None
    /\ pc' = "done"
    /\ UNCHANGED <<ent_data, list_dem, list_sol, dict_dem, dict_sol, new_id, idx,
                   tab, seq, messages, raised, before, fault, log>>
    /\ UNCHANGED <<parseVars, metaVars>>

\* line 130: if conn: conn.close(), then the function ends with no return
\* statement.  Closing a connection whose transaction is not ended makes the
\* store roll it back.
Finally ==
    /\ pc = "finally"
    /\ IF conn = None
       THEN UNCHANGED <<conn, txn, pend>>
       ELSE /\ conn' = "closed"
            /\ txn' = IF txn \in {"active", "aborted"} THEN "rolledback" ELSE txn
            /\ pend' = NoRows
    /\ ret' = None
    /\ pc' = "done"
    /\ UNCHANGED <<ent_data, list_dem, list_sol, dict_dem, dict_sol, new_id, idx,
                   tab, seq, messages, raised, before, fault, log>>
    /\ UNCHANGED <<parseVars, metaVars>>

SaveStep ==
    \/ Connect \/ SetUp \/ InsertEntretien \/ InsertDemande \/ InsertSolution
    \/ Commit \/ ReportSuccess \/ Rollback \/ ReportError \/ Finally

NextParse == ParseCommentToDict \/ ReadRubrique \/ Resolve

SpecParse == InitParse /\ [][NextParse]_vars

NextSave == CallSaveData \/ SaveStep

SpecSave == InitSave /\ [][NextSave]_vars

\* ===================================================== properties, SpecParse
SetMin(S) == CHOOSE x \in S : \A y \in S : x <= y
SetMax(S) == CHOOSE x \in S : \A y \in S : y <= x

\* s without its leading and trailing whitespace, by positions
Trimmed(s) ==
    LET ns == {i \in 1..Len(s) : s[i] \notin Whitespace}
    IN  IF ns = {} THEN <<>> ELSE SubSeq(s, SetMin(ns), SetMax(ns))

Occurrences(s, sep) ==
    {i \in 1..(Len(s) - Len(sep) + 1) : SubSeq(s, i, i + Len(sep) - 1) = sep}

\* the comment up to its first ", Rubrique"
BeforeRubrique(c) ==
    LET occ == Occurrences(c, <<",", " ", "Rubrique">>)
    IN  IF occ = {} THEN c ELSE SubSeq(c, 1, SetMin(occ) - 1)

\* <<i, j>>: a "(" at i and a ")" at j with something between and no parenthesis
\* between, holding a ';' or a ':'
ChoiceGroups(t) ==
    {g \in (1..Len(t)) \X (1..Len(t)) :
        /\ t[g[1]] = "(" /\ t[g[2]] = ")" /\ g[1] + 1 < g[2]
        /\ \A k \in (g[1] + 1)..(g[2] - 1) : t[k] \notin {"(", ")"}
        /\ \E k \in (g[1] + 1)..(g[2] - 1) : t[k] \in {";", ":"}}

\* the <<code, label>> pair of one item
PairOf(item) ==
    LET cs == {k \in 1..Len(item) : item[k] = ":"}
    IN  IF cs = {} THEN <<Trimmed(item), Trimmed(item)>>
        ELSE <<Trimmed(SubSeq(item, 1, SetMin(cs) - 1)),
               Trimmed(SubSeq(item, SetMin(cs) + 1, Len(item)))>>

\* the pairs of the non-blank items of t[lo..hi], in textual order
RECURSIVE PairsIn(_, _, _)
PairsIn(t, lo, hi) ==
    LET semis == {k \in lo..hi : t[k] = ";"}
        stop  == IF semis = {} THEN hi + 1 ELSE SetMin(semis)
        item  == SubSeq(t, lo, stop - 1)
        here  == IF Trimmed(item) = <<>> THEN <<>> ELSE <<PairOf(item)>>
    IN  IF stop > hi THEN here ELSE here \o PairsIn(t, stop + 1, hi)

\* what the claim C8 describes: the items of the first choice group
ItemPairs(c) ==
    IF Falsy(c) THEN <<>>
    ELSE LET t  == BeforeRubrique(c)
             gs == ChoiceGroups(t)
         IN  IF gs = {} THEN <<>>
             ELSE LET g == CHOOSE x \in gs : \A y \in gs : x[1] <= y[1]
                  IN  PairsIn(t, g[1] + 1, g[2] - 1)

DistinctCodes(pairs) ==
    \A i, j \in 1..Len(pairs) : pairs[i][1] = pairs[j][1] => i = j

\* pairs with each code kept once, where it first stands, with its last label
FirstSeen(pairs) == {i \in 1..Len(pairs) : \A j \in 1..(i - 1) : pairs[j][1] # pairs[i][1]}

IsCollapseOf(d, pairs) ==
    /\ Len(d) = Cardinality(FirstSeen(pairs))
    /\ \A k \in 1..Len(d) :
          \E i \in FirstSeen(pairs) :
             /\ Cardinality({j \in FirstSeen(pairs) : j <= i}) = k
             /\ d[k][1] = pairs[i][1]
             /\ d[k][2] = pairs[SetMax({j \in 1..Len(pairs) : pairs[j][1] = pairs[i][1]})][2]

\* parse_comment_to_dict has just returned: choices is its result
Parsed == ppc = "parsed"

\* C8 (as stated): parse_comment_to_dict returns the items of the first
\* non-nested parenthesized group before the first ", Rubrique" that holds a
\* ';' or ':', as code -> label pairs in textual order; the empty mapping for a
\* null or empty comment or when no group holds ';' or ':'.
C8_ItemsInTextualOrder == Parsed => choices = ItemPairs(comment)

\* C8 (amended): the same, with a code that stands in several items kept once,
\* at the place of its first item and with the label of its last item; when the
\* codes of the items are distinct the mapping is the items themselves.
C8_ItemsCollapsedByCode ==
    Parsed =>
       /\ IsCollapseOf(choices, ItemPairs(comment))
       /\ DistinctCodes(ItemPairs(comment)) => choices = ItemPairs(comment)
       /\ Falsy(comment) \/ ChoiceGroups(BeforeRubrique(comment)) = {} => choices = <<>>

\* a prose group is skipped, the block is read, the rubrique suffix is not
C8_Witness ==
    /\ Parsed
    /\ Len(FindAll(comment)) >= 3
    /\ HasSub(comment, <<",", " ", "Rubrique">>)
    /\ Len(choices) = 2
    /\ choices[1][1] # choices[1][2]
    /\ Len(ItemPairs(comment)) = 3

\* the rubrique has just been read
Grouped == ppc = "grouped"

TextOf(c) == IF Falsy(c) THEN <<>> ELSE c

\* the group as the claim C7 describes it, for a given sentinel
GroupWith(c, sentinel) ==
    LET occ == Occurrences(TextOf(c), <<"Rubrique", " ">>)
    IN  IF occ = {} THEN sentinel
        ELSE Trimmed(SubSeq(TextOf(c), SetMax(occ) + 2, Len(TextOf(c))))

\* C7 (as stated): the group is the trimmed text after the last "Rubrique ",
\* and the sentinel "General" for a comment without "Rubrique ".
C7_GroupOrGeneral == Grouped => rubrique = GroupWith(comment, <<"General">>)

\* C7 (amended): the same with the sentinel the code uses, "Général".
C7_GroupOrSentinel == Grouped => rubrique = GroupWith(comment, <<"Général">>)

C7_Witness ==
    /\ Grouped
    /\ Cardinality(Occurrences(comment, <<"Rubrique", " ">>)) = 2
    /\ rubrique = <<"V">>

C7_WitnessSentinel ==
    /\ Grouped /\ comment # Null /\ Len(comment) > 0
    /\ ~HasSub(comment, <<"Rubrique", " ">>)
    /\ rubrique = <<"Général">>

DistinctLabels(d) == \A i, j \in 1..Len(d) : d[i][2] = d[j][2] => i = j

\* C6: for a well-formed comment (no two codes of its mapping share a label)
\* every label of the mapping returned by parse_comment_to_dict, resolved by the
\* writer's reverse lookup against that mapping, gives the code parse put on it.
C6_RoundTrip ==
    (ppc = "resolved" /\ DistinctLabels(choices)) =>
        \A i \in 1..Len(choices) : choices[i][2] = sel => code = choices[i][1]

C6_Witness ==
    /\ ppc = "resolved" /\ DistinctLabels(choices)
    /\ Len(choices) = 2
    /\ sel = choices[2][2] /\ code = choices[2][1] /\ code # sel

\* ====================================================== properties, SpecSave
InCall == pc \notin {"off", "idle"}

\* the rows a table holds beyond those it held when save_data was called
Gained(t) == SubSeq(tab[t], Len(before[t]) + 1, Len(tab[t]))

KeepsEarlierRows ==
    \A t \in {"ent", "dem", "sol"} :
        Len(before[t]) <= Len(tab[t]) /\ SubSeq(tab[t], 1, Len(before[t])) = before[t]

NothingWritten == tab = before

AllWritten ==
    /\ KeepsEarlierRows
    /\ Len(Gained("ent")) = 1
    /\ Len(Gained("dem")) = Len(list_dem)
    /\ Len(Gained("sol")) = Len(list_sol)

\* C1: readers see all the rows of a call or none of them, and when a step
\* after the connection was opened has raised (set-up, an insert, the commit)
\* the store holds, once save_data has ended, no row of the call.
C1_Atomic ==
    InCall =>
       /\ NothingWritten \/ AllWritten
       /\ (pc = "done" /\ fault # "none") => NothingWritten

\* the second child insert raised, behind a parent and a first child
C1_Witness ==
    /\ pc = "done" /\ fault = "insert_dem"
    /\ log = <<"ent", "dem", "rollback">>
    /\ before = EarlierRows /\ tab = before

\* C2: when save_data has ended, on whatever path, the connection it had
\* acquired is closed and its transaction is ended, committed or rolled back;
\* it acquired no connection only when the connect itself raised.
C2_Released ==
    pc = "done" =>
       /\ conn # "open"
       /\ txn \in {"none", "committed", "rolledback"}
       /\ pend = NoRows
       /\ conn = None <=> fault = "connect"

\* the rollback itself raised, with rows pending
C2_Witness ==
    /\ pc = "done" /\ fault = "rollback" /\ raised
    /\ conn = "closed" /\ txn = "rolledback"
    /\ log = <<"ent", "dem", "sol">>

Committed == txn = "committed"

\* C3 (as stated): save_data returns the new key when the transaction
\* committed, and only then; otherwise it fails, raising to its caller.
C3_ReturnsKeyOrRaises ==
    pc = "done" =>
       /\ Committed <=> ret = ToString(new_id)
       /\ ~Committed <=> raised

\* C3 (amended): save_data returns None; it shows the new key in one success
\* message exactly when the transaction committed; a call that failed shows no
\* key and gives exactly one error: one st.error message, or, when the rollback
\* itself raised, no message and the exception, which leaves save_data.
C3_ReportsKeyOrOneError ==
    pc = "done" =>
       /\ ret = None
       /\ Committed <=> messages = << <<"success", new_id>> >>
       /\ Committed => ~raised /\ new_id # 0 /\ fault = "none"
       /\ ~Committed =>
             \/ ~raised /\ Len(messages) = 1 /\ messages[1][1] = "error"
             \/ raised /\ messages = <<>> /\ fault = "rollback"

\* the commit raised behind a parent insert that had returned a key
C3_Witness ==
    /\ pc = "done" /\ new_id # 0 /\ ~Committed
    /\ messages = << <<"error", "commit">> >>

Repeat(x, n) == [k \in 1..n |-> x]

\* C4: a call that committed has added one entretien row, one demande row per
\* label of list_dem and one solution row per label of list_sol, each child row
\* with the key the parent insert returned and pos = the label's 1-based place
\* in its own list; the store ran the parent insert, the demande inserts, the
\* solution inserts and the commit, in this order.
C4_RowsOfASuccessfulCall ==
    (InCall /\ Committed) =>
       /\ AllWritten
       /\ Gained("ent") = << [num |-> new_id, data |-> ent_data] >>
       /\ \A r \in {before.ent[k] : k \in 1..Len(before.ent)} : r.num # new_id
       /\ \A k \in 1..Len(list_dem) :
             Gained("dem")[k].num = new_id /\ Gained("dem")[k].pos = k
       /\ \A k \in 1..Len(list_sol) :
             Gained("sol")[k].num = new_id /\ Gained("sol")[k].pos = k
       /\ log = <<"ent">> \o Repeat("dem", Len(list_dem))
                  \o Repeat("sol", Len(list_sol)) \o <<"commit">>

C4_Witness ==
    /\ pc = "done" /\ Committed /\ before = EarlierRows
    /\ Len(list_dem) = 2 /\ Len(list_sol) = 2
    /\ Gained("sol")[2].pos = 2 /\ Gained("dem")[2].pos = 2

\* the code the claim C5 describes for a label: that of the first entry, in
\* insertion order, whose label it is; the label itself when there is none
FirstCodeOrLabel(d, val) ==
    LET hits == {k \in 1..Len(d) : d[k][2] = val}
    IN  IF hits = {} THEN val ELSE d[SetMin(hits)][1]

\* C5: every demande row of the call, pending or committed, carries the first
\* code of dict_dem, in insertion order, whose label is the row's label, and the
\* label itself when no code of dict_dem has it; every solution row likewise
\* from dict_sol.
C5_FirstCodeElseLabel ==
    InCall =>
       /\ \A k \in 1..Len(pend.dem) :
             pend.dem[k].nature = FirstCodeOrLabel(dict_dem, list_dem[pend.dem[k].pos])
       /\ \A k \in 1..Len(Gained("dem")) :
             Gained("dem")[k].nature = FirstCodeOrLabel(dict_dem, list_dem[Gained("dem")[k].pos])
       /\ \A k \in 1..Len(pend.sol) :
             pend.sol[k].nature = FirstCodeOrLabel(dict_sol, list_sol[pend.sol[k].pos])
       /\ \A k \in 1..Len(Gained("sol")) :
             Gained("sol")[k].nature = FirstCodeOrLabel(dict_sol, list_sol[Gained("sol")[k].pos])

\* two codes with the label "A": the first one is stored; "B" has no code
C5_Witness ==
    /\ pc = "done" /\ Committed
    /\ dict_dem = << <<<<"2">>, <<"A">>>>, <<<<"1">>, <<"A">>>> >>
    /\ dict_sol = << <<<<"1">>, <<"A">>>>, <<<<"2">>, <<"A">>>> >>
    /\ list_dem = << <<"A">>, <<"B">> >> /\ list_sol = << <<"B">>, <<"A">> >>
    /\ Gained("dem")[1].nature = <<"2">> /\ Gained("dem")[2].nature = <<"B">>
    /\ Gained("sol")[1].nature = <<"B">> /\ Gained("sol")[2].nature = <<"1">>

\* ========================================================= get_table_metadata
Tables == {"entretien", "demande", "solution"}

Column(name, type, cmt) ==
    [column_name |-> name, data_type |-> type, comment |-> cmt, is_required |-> FALSE]

\* mutant: only num is left out
RECURSIVE Structure_KeepsPos(_)
Structure_KeepsPos(df) ==
    IF df = <<>> THEN <<>>
    ELSE LET row == Head(df)
             cmt == IF Falsy(row.comment) THEN <<>> ELSE row.comment
         IN  IF row.column_name \in {"num"} THEN Structure_KeepsPos(Tail(df))
             ELSE << [name     |-> row.column_name,
                      type     |-> row.data_type,
                      required |-> row.is_required,
                      choices  |-> parse_comment_to_dict(cmt),
                      rubrique |-> ExtractRubrique(cmt)] >> \o Structure_KeepsPos(Tail(df))

\* lines 77-91: the loop over the rows of the catalog query, in their order
\* (ORDER BY a.attnum)
RECURSIVE Structure(_)
Structure(df) ==
    IF df = <<>> THEN <<>>
    ELSE LET row == Head(df)
             cmt == IF Falsy(row.comment) THEN <<>> ELSE row.comment
         IN  IF row.column_name \in {"num", "pos"} THEN Structure(Tail(df))
             ELSE << [name     |-> row.column_name,
                      type     |-> row.data_type,
                      required |-> row.is_required,
                      choices  |-> parse_comment_to_dict(cmt),
                      rubrique |-> ExtractRubrique(cmt)] >> \o Structure(Tail(df))

\* lines 65-94, one call for table t.  st.cache_data gives the stored value
\* back while the entry lives; otherwise the query runs, and either its rows
\* are turned into the structure or it raises, st.error reports it and [] is
\* returned.  Either value is stored: the function returned normally.
GetTableMetadata(t) ==
    IF cache[t] # <<>>
    THEN /\ struct' = [struct EXCEPT ![t] = cache[t][1]]
         /\ UNCHANGED <<cache, qstat>>
    ELSE \/ /\ struct' = [struct EXCEPT ![t] = Structure(catalog[t])]
            /\ cache' = [cache EXCEPT ![t] = <<Structure(catalog[t])>>]
            /\ qstat' = [qstat EXCEPT ![t] = "ok"]
         \/ /\ struct' = [struct EXCEPT ![t] = <<>>]
            /\ cache' = [cache EXCEPT ![t] = << <<>> >>]
            /\ qstat' = [qstat EXCEPT ![t] = "failed"]

\* line 65, ttl=60: the entry of table t expires
Expire(t) ==
    /\ cache[t] # <<>>
    /\ cache' = [cache EXCEPT ![t] = <<>>]

\* ------------------------------------------------- get_table_metadata alone
MaxCols == 3

ColumnNames == {"num", "pos", "nature", "mode"}

ColumnComments == { Null, <<"(", "1", ":", "A", ")", ",", " ", "Rubrique", " ", "U">> }

\* the rows of one table: distinct column names, in attnum order
CatalogRows ==
    { r \in SeqsUpTo({Column(n, "integer", c) : n \in ColumnNames, c \in ColumnComments},
                     MaxCols) :
        \A a, b \in 1..Len(r) : r[a].column_name = r[b].column_name => a = b }

InitMeta ==
    /\ \E t \in {"entretien", "demande", "solution"} :
          \E r \in CatalogRows :
             catalog = [u \in {"entretien", "demande", "solution"} |-> IF u = t THEN r ELSE <<>>]
    /\ cache = [t \in {"entretien", "demande", "solution"} |-> <<>>]
    /\ struct = [t \in {"entretien", "demande", "solution"} |-> <<>>]
    /\ qstat = [t \in {"entretien", "demande", "solution"} |-> "none"]
    /\ mpc = "off" /\ runs = 0 /\ rendered = FALSE /\ shown = FALSE
    /\ comment = <<"<None>">> /\ choices = <<>> /\ rubrique = <<>>
    /\ sel = <<>> /\ code = <<>> /\ ppc = "off"
    /\ pc = "off" /\ ent_data = <<>> /\ list_dem = <<>> /\ list_sol = <<>>
    /\ dict_dem = <<>> /\ dict_sol = <<>> /\ conn = "None" /\ new_id = 0 /\ idx = 0
    /\ txn = "none" /\ pend = [ent |-> <<>>, dem |-> <<>>, sol |-> <<>>]
    /\ tab = [ent |-> <<>>, dem |-> <<>>, sol |-> <<>>] /\ seq = 1
    /\ messages = <<>> /\ raised = FALSE /\ ret = "None"
    /\ before = [ent |-> <<>>, dem |-> <<>>, sol |-> <<>>] /\ fault = "none" /\ log = <<>>

CallGetTableMetadata ==
    /\ mpc = "off"
    /\ \E t \in Tables : GetTableMetadata(t)
    /\ UNCHANGED <<catalog, mpc, runs, rendered, shown>>
    /\ UNCHANGED <<parseVars, saveVars>>

CacheExpires ==
    /\ mpc = "off"
    /\ \E t \in Tables : Expire(t)
    /\ UNCHANGED <<catalog, struct, qstat, mpc, runs, rendered, shown>>
    /\ UNCHANGED <<parseVars, saveVars>>

NextMeta == CallGetTableMetadata \/ CacheExpires

SpecMeta == InitMeta /\ [][NextMeta]_vars

\* ======================================================= properties, SpecMeta
Names(st) == [k \in 1..Len(st) |-> st[k].name]

ColumnNamesOf(df) == [k \in 1..Len(df) |-> df[k].column_name]

\* the places where name n stands in the sequence of names ns
Places(ns, n) == {k \in 1..Len(ns) : ns[k] = n}

\* C10: what get_table_metadata returned for a table has no field named num or
\* pos; when the catalog query behind it succeeded it has every other column
\* of the table exactly once, in the order of the catalog rows.
C10_LinkageKeysExcluded ==
    \A t \in Tables :
       /\ \A k \in 1..Len(struct[t]) : struct[t][k].name \notin {"num", "pos"}
       /\ qstat[t] = "ok" =>
             LET ns == Names(struct[t])
                 cs == ColumnNamesOf(catalog[t])
             IN  /\ \A k \in 1..Len(cs) :
                       cs[k] \notin {"num", "pos"} => Cardinality(Places(ns, cs[k])) = 1
                 /\ \A k \in 1..Len(ns) : Cardinality(Places(cs, ns[k])) = 1
                 /\ \A a, b \in 1..Len(ns) :
                       a < b => SetMin(Places(cs, ns[a])) < SetMin(Places(cs, ns[b]))

C10_Witness ==
    \E t \in Tables :
       /\ qstat[t] = "ok"
       /\ ColumnNamesOf(catalog[t]) = <<"pos", "nature", "num">>
       /\ Names(struct[t]) = <<"nature">>

\* ======================================================================= main
MaxRuns == 2

\* the three tables as the application expects them
EntretienRows ==
    << Column("num", "integer", Null),
       Column("mode", "smallint",
              <<"a", " ", "(", "1", ":", "A", ";", "2", ":", "B", ")", ",", " ", "Rubrique", " ", "U">>),
       Column("jour", "date", Null) >>

DemandeRows ==
    << Column("num", "integer", Null), Column("pos", "smallint", Null),
       Column("nature", "character varying", <<"(", "1", ":", "A", ";", "2", ":", "B", ")">>) >>

SolutionRows ==
    << Column("num", "integer", Null), Column("pos", "smallint", Null),
       Column("nature", "character varying", <<"(", "9", ":", "Z", ")">>) >>

\* next((k for k, v in d.items() if v == sel), None), line 164
RECURSIVE LookupOrNone(_, _)
LookupOrNone(d, val) ==
    IF d = <<>> THEN Null
    ELSE IF Head(d)[2] = val THEN Head(d)[1] ELSE LookupOrNone(Tail(d), val)

\* lines 162-170: the values the widget of field f can give
WidgetValues(f) ==
    IF f.choices # <<>>
    THEN {LookupOrNone(f.choices, f.choices[k][2]) : k \in 1..Len(f.choices)}
    ELSE IF f.type = "date" THEN {<<"2024-01-10">>}
    ELSE IF f.type \in {"integer", "smallint"} THEN {<<"0">>}
    ELSE {<<>>}

\* lines 153-170: the form_data a filled form gives, one entry per field
FormDatas(st) ==
    { fd \in [1..Len(st) -> UNION {{<<st[k].name, v>> : v \in WidgetValues(st[k])} : k \in 1..Len(st)}] :
        \A k \in 1..Len(st) : fd[k][1] = st[k].name }

\* lines 173 and 175
ChoicesOfFirst(st) == IF st # <<>> THEN st[1].choices ELSE <<>>

\* what st.multiselect can give over the options: distinct options, in the
\* order they were picked
Selections(options) ==
    { x \in SeqsUpTo({options[k] : k \in 1..Len(options)}, MaxSel) :
        \A a, b \in 1..Len(x) : x[a] = x[b] => a = b }

InitMain ==
    /\ catalog \in { [t \in {"entretien", "demande", "solution"} |->
                        IF t = "entretien" THEN e ELSE IF t = "demande" THEN d ELSE SolutionRows] :
                     e \in {EntretienRows, <<>>}, d \in {DemandeRows, <<>>} }
    /\ cache = [t \in {"entretien", "demande", "solution"} |-> <<>>]
    /\ struct = [t \in {"entretien", "demande", "solution"} |-> <<>>]
    /\ qstat = [t \in {"entretien", "demande", "solution"} |-> "none"]
    /\ mpc = "get_ent" /\ runs = 1 /\ rendered = FALSE /\ shown = FALSE
    /\ comment = <<"<None>">> /\ choices = <<>> /\ rubrique = <<>>
    /\ sel = <<>> /\ code = <<>> /\ ppc = "off"
    /\ pc = "idle" /\ ent_data = <<>> /\ list_dem = <<>> /\ list_sol = <<>>
    /\ dict_dem = <<>> /\ dict_sol = <<>> /\ conn = "None" /\ new_id = 0 /\ idx = 0
    /\ txn = "none" /\ pend = [ent |-> <<>>, dem |-> <<>>, sol |-> <<>>]
    /\ tab = [ent |-> <<>>, dem |-> <<>>, sol |-> <<>>] /\ seq = 1
    /\ messages = <<>> /\ raised = FALSE /\ ret = "None"
    /\ before = [ent |-> <<>>, dem |-> <<>>, sol |-> <<>>] /\ fault = "none" /\ log = <<>>

\* line 141
GetEntretien ==
    /\ mpc = "get_ent"
    /\ GetTableMetadata("entretien")
    /\ mpc' = "get_dem"
    /\ UNCHANGED <<catalog, runs, rendered, shown>>
    /\ UNCHANGED <<parseVars, saveVars>>

\* line 142
GetDemande ==
    /\ mpc = "get_dem"
    /\ GetTableMetadata("demande")
    /\ mpc' = "get_sol"
    /\ UNCHANGED <<catalog, runs, rendered, shown>>
    /\ UNCHANGED <<parseVars, saveVars>>

\* line 143
GetSolution ==
    /\ mpc = "get_sol"
    /\ GetTableMetadata("solution")
    /\ mpc' = "check"
    /\ UNCHANGED <<catalog, runs, rendered, shown>>
    /\ UNCHANGED <<parseVars, saveVars>>

\* mutant: the script goes on without the check
StopUnlessEntretien_Never ==
    /\ mpc = "check"
    /\ mpc' = "nav"
    /\ UNCHANGED <<catalog, cache, struct, qstat, runs, rendered, shown>>
    /\ UNCHANGED <<parseVars, saveVars>>

\* line 145: if not struct_ent: st.stop()
StopUnlessEntretien ==
    /\ mpc = "check"
    /\ mpc' = IF struct["entretien"] = <<>> THEN "end" ELSE "nav"
    /\ UNCHANGED <<catalog, cache, struct, qstat, runs, rendered, shown>>
    /\ UNCHANGED <<parseVars, saveVars>>

\* lines 147-149 and 181
Navigate ==
    /\ mpc = "nav"
    /\ mpc' \in {"form", "view"}
    /\ UNCHANGED <<catalog, cache, struct, qstat, runs, rendered, shown>>
    /\ UNCHANGED <<parseVars, saveVars>>

\* lines 150-179: the form is rendered; the submit button gives True only in
\* the run its click has started, so the run before had rendered the form;
\* then save_data is called with what the widgets hold
RenderForm ==
    /\ mpc = "form"
    /\ rendered' = TRUE
    /\ \/ /\ mpc' = "end"
          /\ UNCHANGED saveVars
       \/ /\ shown
          /\ \E fd \in FormDatas(struct["entretien"]),
                sd \in Selections(DictValues(ChoicesOfFirst(struct["demande"]))),
                ss \in Selections(DictValues(ChoicesOfFirst(struct["solution"]))) :
                Enter(fd, sd, ss, ChoicesOfFirst(struct["demande"]),
                      ChoicesOfFirst(struct["solution"]))
          /\ mpc' = "saving"
    /\ UNCHANGED <<catalog, cache, struct, qstat, runs, shown>>
    /\ UNCHANGED parseVars

\* save_data has ended: the run ends with it, by its return or by its exception
EndOfSave ==
    /\ mpc = "saving" /\ pc = "done"
    /\ mpc' = "end"
    /\ UNCHANGED <<catalog, cache, struct, qstat, runs, rendered, shown>>
    /\ UNCHANGED <<parseVars, saveVars>>

\* lines 182-184
ViewData ==
    /\ mpc = "view"
    /\ mpc' = "end"
    /\ UNCHANGED <<catalog, cache, struct, qstat, runs, rendered, shown>>
    /\ UNCHANGED <<parseVars, saveVars>>

\* between two runs a cache entry may reach its ttl
CacheExpiresBetweenRuns ==
    /\ mpc = "end"
    /\ \E t \in Tables : Expire(t)
    /\ UNCHANGED <<catalog, struct, qstat, mpc, runs, rendered, shown>>
    /\ UNCHANGED <<parseVars, saveVars>>

\* the user acts on the page: the script runs again from its top
Rerun ==
    /\ mpc = "end" /\ runs < MaxRuns
    /\ runs' = runs + 1
    /\ shown' = rendered
    /\ rendered' = FALSE
    /\ mpc' = "get_ent"
    /\ UNCHANGED <<catalog, cache, struct, qstat>>
    /\ UNCHANGED <<parseVars, saveVars>>

NextMain ==
    \/ GetEntretien \/ GetDemande \/ GetSolution \/ StopUnlessEntretien \/ Navigate
    \/ RenderForm \/ EndOfSave \/ ViewData \/ CacheExpiresBetweenRuns \/ Rerun
    \/ (mpc = "saving" /\ SaveStep)

SpecMain == InitMain /\ [][NextMain]_vars

\* ======================================================= properties, SpecMain
\* the form is on the page, or save_data is running or has run, in this run
FormOrSave == mpc \in {"form", "saving"} \/ rendered

\* the catalog query for table t failed: its metadata is unavailable
Unavailable(t) == qstat[t] = "failed"

\* a failed catalog query gives the empty sequence
FailedQueryGivesEmpty == \A t \in Tables : Unavailable(t) => struct[t] = <<>>

\* C9 (as stated): a failed catalog query gives the empty sequence, and the
\* form is not rendered and save_data is not called while the metadata of
\* entretien, demande or solution is unavailable.
C9_HaltsOnAnyUnavailable ==
    /\ FailedQueryGivesEmpty
    /\ FormOrSave => \A t \in Tables : ~Unavailable(t)

\* C9 (amended): a failed catalog query gives the empty sequence; the form is
\* not rendered and save_data is not called while get_table_metadata gave the
\* empty sequence for entretien; when it gave the empty sequence for demande
\* or for solution the form is rendered all the same and save_data is called
\* with an empty mapping and an empty list for that table.
C9_HaltsOnEntretienUnavailable ==
    /\ FailedQueryGivesEmpty
    /\ FormOrSave => struct["entretien"] # <<>>
    /\ (mpc = "saving" /\ struct["demande"] = <<>>) => dict_dem = <<>> /\ list_dem = <<>>
    /\ (mpc = "saving" /\ struct["solution"] = <<>>) => dict_sol = <<>> /\ list_sol = <<>>

\* the query for demande failed, the form was rendered and a dossier saved
C9_Witness ==
    /\ mpc = "saving" /\ pc = "done" /\ Committed
    /\ qstat["demande"] = "failed" /\ Unavailable("demande")
    /\ qstat["entretien"] = "ok"

====
